---- MODULE Spec2Model ----
(***************************************************************************)
(* Lending / inventory engine of simpleLibraryApp: the request handlers of *)
(* routes/borrowings.js and routes/books.js running against the MySQL      *)
(* (InnoDB) schema, triggers and stored routines that routes/books.js      *)
(* carries after its JavaScript.                                           *)
(*                                                                         *)
(* The committed database is the variables books, members, loans.  A       *)
(* handler that works on a pooled connection inside a transaction is a     *)
(* process with a position pc[p]: its SELECTs are consistent reads of the  *)
(* committed rows, its write statement takes InnoDB row locks (lock) that  *)
(* it keeps until COMMIT / ROLLBACK, and its uncommitted write is kept in  *)
(* req[p] until the commit applies it.  A handler that runs single         *)
(* statements on the pool (autocommit) applies each statement at once.     *)
(***************************************************************************)
EXTENDS Integers, Sequences, FiniteSets, TLC

\* ---------------------------------------------------------------- bounds
MaxProcs  == 2      \* concurrent request handlers
MaxBooks  == 1      \* book rows ever created (AUTO_INCREMENT ids 1..MaxBooks)
MaxLoans  == 2      \* borrowing rows ever created
MaxCopies == 2      \* largest copy count a caller supplies
MaxDay    == 1      \* last calendar day of the modelled clock

\* ------------------------------------------------------ program constants
LoanPeriod     == 14   \* default loan period in days
DefaultFine    == 1    \* default fine per day
PoolLimit      == 10   \* connectionLimit of the pool

\* SQL NULL / a field the request body leaves out (dates and amounts are >= 0)
NULL == -1

Procs     == 1..MaxProcs
BookIds   == 1..MaxBooks
\* member 1 is a row of table members; id 2 names no row
Members   == {1}
MemberIds == {1, 2}
Days      == 0..MaxDay

MemberStatuses == {"active", "suspended"}
LoanStatuses   == {"borrowed", "returned", "overdue", "lost"}

VARIABLES
  books,     \* book_id -> [total_copies, available_copies]   (table books)
  members,   \* member_id -> membership_status                (table members)
  loans,     \* sequence of borrowings rows, borrowing_id = index
  today,     \* CURDATE() / new Date()
  pc,        \* position of each handler
  req,       \* the handler's locals
  result,    \* the response of the handler's last request
  lock,      \* book_id -> the process holding the row's exclusive lock, or 0
  nextBookId, \* AUTO_INCREMENT of table books
  cursor,    \* the open cursor of a running stored procedure and its result rows
  links,     \* the rows of tables book_authors and book_categories
  leaked     \* pool connections a handler took and never released

vars ==
  <<books, members, loans, today, pc, req, result, lock, nextBookId, cursor, links, leaked>>

\* rows of table authors and of table categories (ids 3 and 2 name no row)
Authors     == {1, 2}
AuthorIds   == {1, 2, 3}
Categories  == {1}
CategoryIds == {1, 2}

\* a book of the sample data (the model's requests name the books of BookIds)
SeedBook == 0

\* tables book_authors and book_categories, empty
NoLinks == [authors |-> {}, categories |-> {}]

\* a request body without author_ids / category_ids
NoList == [given |-> FALSE, ids |-> << >>]

\* no stored procedure is running (proc: the procedure whose cursor is open,
\* arg: its argument, rows: the rows of the cursor not fetched yet)
NoCursor == [proc |-> "none", arg |-> NULL, rows |-> {}]

NoReq == [book |-> 0, member |-> 0, loan |-> 0, bdate |-> NULL, ddate |-> NULL,
          rdate |-> NULL, fine |-> NULL]

\* ------------------------------------------------------------ the schema
\* CREATE TABLE borrowings: a row as INSERT ... VALUES (?, ?, ?, ?, 'borrowed')
\* makes it, return_date NULL and fine_amount 0.00 by default
NewBorrowing(b, m, bd, dd) ==
  [book_id |-> b, member_id |-> m, borrow_date |-> bd, due_date |-> dd,
   return_date |-> NULL, fine_amount |-> 0, status |-> "borrowed"]

LoanIds == 1..Len(loans)

\* GetActiveBorrowingsCount(bookId)
GetActiveBorrowingsCount(b) ==
  Cardinality({l \in LoanIds : loans[l].book_id = b
                               /\ loans[l].status \in {"borrowed", "overdue"}})

\* SELECT COUNT(*) FROM borrowings WHERE member_id = ? AND status = 'overdue'
OverdueCount(m) ==
  Cardinality({l \in LoanIds : loans[l].member_id = m /\ loans[l].status = "overdue"})

\* (mutant) the insert trigger is missing
after_borrowing_insert_Missing(bk, row) == bk

\* trigger after_borrowing_insert: available_copies = available_copies - 1
after_borrowing_insert(bk, row) ==
  IF row.book_id \in DOMAIN bk
    THEN [bk EXCEPT ![row.book_id].available_copies = @ - 1]
    ELSE bk

\* (mutant) the update trigger is missing
after_borrowing_update_Missing(bk, old, new) == bk

\* (mutant) the update trigger restocks on every change of status
after_borrowing_update_AnyChange(bk, old, new) ==
  IF new.status # old.status /\ new.book_id \in DOMAIN bk
    THEN [bk EXCEPT ![new.book_id].available_copies = @ + 1]
    ELSE bk

\* (mutant) the update trigger restocks when a loan stops being borrowed
after_borrowing_update_OnLeaveBorrowed(bk, old, new) ==
  IF old.status = "borrowed" /\ new.status # "borrowed" /\ new.book_id \in DOMAIN bk
    THEN [bk EXCEPT ![new.book_id].available_copies = @ + 1]
    ELSE bk

\* trigger after_borrowing_update: available_copies + 1 on the change into returned
after_borrowing_update(bk, old, new) ==
  IF new.status = "returned" /\ old.status # "returned" /\ new.book_id \in DOMAIN bk
    THEN [bk EXCEPT ![new.book_id].available_copies = @ + 1]
    ELSE bk

\* a statement that updates many borrowings rows: the update trigger runs once
\* for each row, old[n] the row before and new[n] the row after (a row the
\* statement does not match has new[n] = old[n])
RECURSIVE UpdateTriggers(_, _, _, _)
UpdateTriggers(bk, old, new, n) ==
  IF n = 0 THEN bk
  ELSE after_borrowing_update(UpdateTriggers(bk, old, new, n - 1), old[n], new[n])

\* ------------------------------------------------------------------ Init
Init ==
  /\ books = << >>
  /\ members = [m \in Members |-> "active"]
  /\ loans = << >>
  /\ today = MaxDay
  /\ pc = [p \in Procs |-> "idle"]
  /\ req = [p \in Procs |-> NoReq]
  /\ result = [p \in Procs |-> "none"]
  /\ lock = [b \in BookIds |-> 0]
  /\ nextBookId = 1
  /\ cursor = NoCursor
  /\ links = NoLinks
  /\ leaked = 0

\* ------------------------------------------------------- the pool (app.js)
\* the connections out of the pool: those lost for good and those of the
\* handlers that are inside their transaction (borrow and return hold theirs
\* from the first statement to the commit)
ConnectionsHeld ==
  leaked + Cardinality({p \in Procs : pc[p] \in {"b_insert", "b_commit", "r_update"}})

\* pool.getConnection() gets a connection at once (waitForConnections: it
\* waits, without limit, while all are out)
ConnectionFree == ConnectionsHeld < PoolLimit

\* const connection = await pool.getConnection();
\* await connection.beginTransaction();   <- throws
\* The two lines stand before the inner try of every handler that opens a
\* transaction (borrow, return, book create, book update, and delete after
\* its check): the outer catch answers 500 and connection.release(), which is
\* in the inner finally, is never reached.
BeginTransactionFails(p) ==
  /\ pc[p] \in {"idle", "d_delete"}
  /\ ConnectionFree
  /\ leaked' = leaked + 1
  /\ pc' = [pc EXCEPT ![p] = "idle"]
  /\ req' = [req EXCEPT ![p] = NoReq]
  /\ result' = [result EXCEPT ![p] = "Error"]
  /\ UNCHANGED <<books, members, loans, today, lock, nextBookId, cursor, links>>

\* ------------------------------------------- POST /api/borrowings (borrow)
\* (mutant) the member is looked at before the book's copies
checkBorrowEligibility_MemberFirst(b, m) ==
  IF b \notin DOMAIN books THEN "BookNotFound"
  ELSE IF m \notin DOMAIN members THEN "MemberNotFound"
  ELSE IF members[m] # "active" THEN "MemberNotActive"
  ELSE IF books[b].available_copies <= 0 THEN "NoAvailableCopies"
  ELSE IF OverdueCount(m) > 0 THEN "MemberHasOverdueLoans"
  ELSE "Ok"

\* the eligibility checks, in the order of the handler
checkBorrowEligibility(b, m) ==
  IF b \notin DOMAIN books THEN "BookNotFound"
  ELSE IF books[b].available_copies <= 0 THEN "NoAvailableCopies"
  ELSE IF m \notin DOMAIN members THEN "MemberNotFound"
  ELSE IF members[m] # "active" THEN "MemberNotActive"
  ELSE IF OverdueCount(m) > 0 THEN "MemberHasOverdueLoans"
  ELSE "Ok"

\* borrowings rows being inserted by open transactions (the model admits a
\* request only while the table stays within MaxLoans rows)
InFlight == Cardinality({q \in Procs : pc[q] \in {"b_insert", "b_commit"}})

\* (mutant) the row is inserted on the pool before the member is checked, and
\* a rejection for the member leaves it there
BorrowCheck_InsertFirst(p, b, m, bd, dd) ==
  /\ pc[p] = "idle"
  /\ ConnectionFree
  /\ Len(loans) + InFlight < MaxLoans
  /\ LET r   == checkBorrowEligibility(b, m)
         row == NewBorrowing(b, m, IF bd = NULL THEN today ELSE bd,
                             IF dd = NULL THEN today + LoanPeriod ELSE dd)
     IN IF r \in {"MemberNotFound", "MemberNotActive", "MemberHasOverdueLoans"}
          THEN /\ result' = [result EXCEPT ![p] = r]
               /\ loans' = Append(loans, row)
               /\ books' = after_borrowing_insert(books, row)
               /\ UNCHANGED <<pc, req>>
        ELSE IF r # "Ok"
          THEN /\ result' = [result EXCEPT ![p] = r]
               /\ UNCHANGED <<pc, req, books, loans>>
          ELSE /\ pc' = [pc EXCEPT ![p] = "b_insert"]
               /\ req' = [req EXCEPT ![p] = [NoReq EXCEPT
                             !.book = b, !.member = m,
                             !.bdate = row.borrow_date, !.ddate = row.due_date]]
               /\ result' = [result EXCEPT ![p] = "none"]
               /\ UNCHANGED <<books, loans>>
  /\ UNCHANGED <<members, today, lock, nextBookId, cursor, links, leaked>>

\* the three SELECTs and their early returns (rollback, 404 / 400); on Ok the
\* dates of the row are computed from the request and the current date
BorrowCheck(p, b, m, bd, dd) ==
  /\ pc[p] = "idle"
  /\ ConnectionFree
  /\ Len(loans) + InFlight < MaxLoans
  /\ LET r == checkBorrowEligibility(b, m) IN
     IF r # "Ok"
       THEN /\ result' = [result EXCEPT ![p] = r]
            /\ UNCHANGED <<pc, req>>
       ELSE /\ pc' = [pc EXCEPT ![p] = "b_insert"]
            /\ req' = [req EXCEPT ![p] = [NoReq EXCEPT
                          !.book = b, !.member = m,
                          !.bdate = IF bd = NULL THEN today ELSE bd,
                          !.ddate = IF dd = NULL THEN today + LoanPeriod ELSE dd]]
            /\ result' = [result EXCEPT ![p] = "none"]
  /\ UNCHANGED <<books, members, loans, today, lock, nextBookId, cursor, links, leaked>>

\* INSERT INTO borrowings: the foreign key needs the book row, the trigger's
\* UPDATE books takes its exclusive lock; the row stays uncommitted
BorrowInsert(p) ==
  /\ pc[p] = "b_insert"
  /\ req[p].book \in DOMAIN books
  /\ lock[req[p].book] = 0
  /\ lock' = [lock EXCEPT ![req[p].book] = p]
  /\ pc' = [pc EXCEPT ![p] = "b_commit"]
  /\ UNCHANGED <<books, members, loans, today, req, result, nextBookId, cursor, links, leaked>>

\* the INSERT throws (the book row is gone: foreign key; or the lock wait on
\* the book row times out): catch, rollback, 500
BorrowInsertFail(p) ==
  /\ pc[p] = "b_insert"
  /\ \/ req[p].book \notin DOMAIN books
     \/ lock[req[p].book] \notin {0, p}
  /\ pc' = [pc EXCEPT ![p] = "idle"]
  /\ req' = [req EXCEPT ![p] = NoReq]
  /\ result' = [result EXCEPT ![p] = "Error"]
  /\ UNCHANGED <<books, members, loans, today, lock, nextBookId, cursor, links, leaked>>

\* COMMIT: the inserted row and the trigger's decrement become the committed state
BorrowCommit(p) ==
  /\ pc[p] = "b_commit"
  /\ LET row == NewBorrowing(req[p].book, req[p].member, req[p].bdate, req[p].ddate) IN
     /\ loans' = Append(loans, row)
     /\ books' = after_borrowing_insert(books, row)
  /\ lock' = [lock EXCEPT ![req[p].book] = 0]
  /\ pc' = [pc EXCEPT ![p] = "idle"]
  /\ req' = [req EXCEPT ![p] = NoReq]
  /\ result' = [result EXCEPT ![p] = "Created"]
  /\ UNCHANGED <<members, today, nextBookId, cursor, links, leaked>>

\* ------------------------------------- PUT /api/borrowings/:id/return
\* SELECT book_id, status and the two early returns (rollback, 404 / 400)
ReturnCheck(p, l, rd, fine) ==
  /\ pc[p] = "idle"
  /\ ConnectionFree
  /\ IF l \notin LoanIds
       THEN /\ result' = [result EXCEPT ![p] = "LoanNotFound"]
            /\ UNCHANGED <<pc, req>>
     ELSE IF loans[l].status = "returned"
       THEN /\ result' = [result EXCEPT ![p] = "AlreadyReturned"]
            /\ UNCHANGED <<pc, req>>
     ELSE /\ pc' = [pc EXCEPT ![p] = "r_update"]
          /\ req' = [req EXCEPT ![p] = [NoReq EXCEPT !.loan = l, !.rdate = rd, !.fine = fine]]
          /\ result' = [result EXCEPT ![p] = "none"]
  /\ UNCHANGED <<books, members, loans, today, lock, nextBookId, cursor, links, leaked>>

\* the row UPDATE borrowings SET status = 'returned', return_date = ?, fine_amount = ?
\* writes: return_date || today, fine_amount || 0
ReturnedRow(old, rd, fine, now) ==
  [old EXCEPT !.status = "returned",
              !.return_date = IF rd = NULL THEN now ELSE rd,
              !.fine_amount = IF fine = NULL THEN 0 ELSE fine]

\* the UPDATE (on the row as it is now, its trigger with it) and the COMMIT.
\* The statement holds the row locks it takes until the commit that follows it
\* at once, so the two are one step of the committed state; the trigger's
\* UPDATE books waits for the book row's lock.
ReturnUpdate(p) ==
  /\ pc[p] = "r_update"
  /\ LET l   == req[p].loan
         old == loans[l]
         new == ReturnedRow(old, req[p].rdate, req[p].fine, today)
     IN /\ (new.status = "returned" /\ old.status # "returned") => lock[old.book_id] = 0
        /\ loans' = [loans EXCEPT ![l] = new]
        /\ books' = after_borrowing_update(books, old, new)
  /\ pc' = [pc EXCEPT ![p] = "idle"]
  /\ req' = [req EXCEPT ![p] = NoReq]
  /\ result' = [result EXCEPT ![p] = "Returned"]
  /\ UNCHANGED <<members, today, lock, nextBookId, cursor, links, leaked>>

\* ------------------------------------- PUT /api/borrowings/:id/extend
\* (mutant) the new due date is compared with < : an equal date is accepted
ExtendCheck_EqualAccepted(p, l, nd) ==
  /\ pc[p] = "idle"
  /\ IF l \notin LoanIds
       THEN /\ result' = [result EXCEPT ![p] = "LoanNotFound"]
            /\ UNCHANGED <<pc, req>>
     ELSE IF loans[l].status = "returned"
       THEN /\ result' = [result EXCEPT ![p] = "CannotExtendReturned"]
            /\ UNCHANGED <<pc, req>>
     ELSE IF nd < loans[l].due_date
       THEN /\ result' = [result EXCEPT ![p] = "InvalidDueDate"]
            /\ UNCHANGED <<pc, req>>
     ELSE /\ pc' = [pc EXCEPT ![p] = "e_update"]
          /\ req' = [req EXCEPT ![p] = [NoReq EXCEPT !.loan = l, !.ddate = nd]]
          /\ result' = [result EXCEPT ![p] = "none"]
  /\ UNCHANGED <<books, members, loans, today, lock, nextBookId, cursor, links, leaked>>

\* SELECT status, due_date on the pool and the three early returns
ExtendCheck(p, l, nd) ==
  /\ pc[p] = "idle"
  /\ IF l \notin LoanIds
       THEN /\ result' = [result EXCEPT ![p] = "LoanNotFound"]
            /\ UNCHANGED <<pc, req>>
     ELSE IF loans[l].status = "returned"
       THEN /\ result' = [result EXCEPT ![p] = "CannotExtendReturned"]
            /\ UNCHANGED <<pc, req>>
     ELSE IF nd <= loans[l].due_date
       THEN /\ result' = [result EXCEPT ![p] = "InvalidDueDate"]
            /\ UNCHANGED <<pc, req>>
     ELSE /\ pc' = [pc EXCEPT ![p] = "e_update"]
          /\ req' = [req EXCEPT ![p] = [NoReq EXCEPT !.loan = l, !.ddate = nd]]
          /\ result' = [result EXCEPT ![p] = "none"]
  /\ UNCHANGED <<books, members, loans, today, lock, nextBookId, cursor, links, leaked>>

\* (mutant) the UPDATE sets due_date only, an overdue loan stays overdue
ExtendedRow_KeepsStatus(old, nd) == [old EXCEPT !.due_date = nd]

\* UPDATE borrowings SET due_date = ?, status = CASE WHEN status = 'overdue' ...
ExtendedRow(old, nd) ==
  [old EXCEPT !.due_date = nd,
              !.status = IF old.status = "overdue" THEN "borrowed" ELSE old.status]

ExtendUpdate(p) ==
  /\ pc[p] = "e_update"
  /\ LET l   == req[p].loan
         old == loans[l]
         new == ExtendedRow(old, req[p].ddate)
     IN /\ loans' = [loans EXCEPT ![l] = new]
        /\ books' = after_borrowing_update(books, old, new)
  /\ pc' = [pc EXCEPT ![p] = "idle"]
  /\ req' = [req EXCEPT ![p] = NoReq]
  /\ result' = [result EXCEPT ![p] = "Extended"]
  /\ UNCHANGED <<members, today, lock, nextBookId, cursor, links, leaked>>

\* ------------------------------------- POST /api/borrowings/update-overdue
\* (mutant) due_date <= CURDATE(): a loan due today is swept too
SweepRow_DueToday(old, now) ==
  IF old.due_date <= now /\ old.status = "borrowed"
    THEN [old EXCEPT !.status = "overdue"]
    ELSE old

\* (mutant) the WHERE leaves out returned loans only: status <> 'returned'
SweepMatches_NotReturned(old, now) == old.due_date < now /\ old.status # "returned"

\* WHERE due_date < CURDATE() AND status = 'borrowed'
SweepMatches(old, now) == old.due_date < now /\ old.status = "borrowed"

\* UPDATE borrowings SET status = 'overdue' WHERE due_date < CURDATE() AND status = 'borrowed'
SweepRow(old, now) ==
  IF SweepMatches(old, now)
    THEN [old EXCEPT !.status = "overdue"]
    ELSE old

\* result.affectedRows of the UPDATE: the rows its WHERE matches
UpdatedCount(rows, now) ==
  Cardinality({l \in 1..Len(rows) : SweepMatches(rows[l], now)})

UpdateOverdue ==
  /\ LET new == [l \in LoanIds |-> SweepRow(loans[l], today)] IN
       /\ new # loans
       /\ loans' = new
       /\ books' = UpdateTriggers(books, loans, new, Len(loans))
  /\ UNCHANGED <<members, today, pc, req, result, lock, nextBookId, cursor, links, leaked>>

\* ------------------------------------- PROCEDURE UpdateOverdueBorrowings()
\* The procedure runs with autocommit: OPEN cur evaluates its SELECT on the
\* rows committed then, and each UPDATE of the loop is a statement of its own,
\* so other requests commit between the statements of the procedure.

\* SELECT borrowing_id FROM borrowings WHERE due_date < CURDATE() AND status = 'borrowed'
OverdueCursorRows(now) ==
  {l \in LoanIds : loans[l].due_date < now /\ loans[l].status = "borrowed"}

\* CALL UpdateOverdueBorrowings(): DECLARE ..., OPEN cur
UpdateOverdueBorrowings_Open ==
  /\ cursor.proc = "none"
  /\ cursor' = [proc |-> "overdue", arg |-> NULL, rows |-> OverdueCursorRows(today)]
  /\ UNCHANGED <<books, members, loans, today, pc, req, result, lock, nextBookId, links, leaked>>

\* FETCH cur INTO b_id (the SELECT has no ORDER BY: any remaining row), then
\* UPDATE borrowings SET status = 'overdue' WHERE borrowing_id = b_id
UpdateOverdueBorrowings_Fetch ==
  /\ cursor.proc = "overdue"
  /\ \E b_id \in cursor.rows :
       LET old == loans[b_id]
           new == [old EXCEPT !.status = "overdue"]
       IN /\ loans' = [loans EXCEPT ![b_id] = new]
          /\ books' = after_borrowing_update(books, old, new)
          /\ cursor' = [cursor EXCEPT !.rows = @ \ {b_id}]
  /\ UNCHANGED <<members, today, pc, req, result, lock, nextBookId, links, leaked>>

\* FETCH finds no row: done, LEAVE read_loop, CLOSE cur
UpdateOverdueBorrowings_Close ==
  /\ cursor.proc = "overdue"
  /\ cursor.rows = {}
  /\ cursor' = NoCursor
  /\ UNCHANGED <<books, members, loans, today, pc, req, result, lock, nextBookId, links, leaked>>

\* ------------------------------------- POST /api/borrowings/calculate-fines
\* DATEDIFF(CURDATE(), due_date) * fine_per_day
ComputeFine(due, now, finePerDay) == (now - due) * finePerDay

\* (mutant) the fine of the day is added to the stored fine
FineRow_Accumulates(old, now, finePerDay) ==
  IF old.status = "overdue" /\ old.return_date = NULL
    THEN [old EXCEPT !.fine_amount = @ + ComputeFine(old.due_date, now, finePerDay)]
    ELSE old

\* UPDATE borrowings SET fine_amount = ... WHERE status = 'overdue' AND return_date IS NULL
FineRow(old, now, finePerDay) ==
  IF old.status = "overdue" /\ old.return_date = NULL
    THEN [old EXCEPT !.fine_amount = ComputeFine(old.due_date, now, finePerDay)]
    ELSE old

CalculateFines(fpd) ==
  /\ LET dailyFine == IF fpd = NULL THEN DefaultFine ELSE fpd
         new       == [l \in LoanIds |-> FineRow(loans[l], today, dailyFine)]
     IN /\ new # loans
        /\ loans' = new
        /\ books' = UpdateTriggers(books, loans, new, Len(loans))
  /\ UNCHANGED <<members, today, pc, req, result, lock, nextBookId, cursor, links, leaked>>

\* ------------------------------------- PROCEDURE CalculateFinesCursor(fine_per_day)
\* Like UpdateOverdueBorrowings, a cursor and a loop of single UPDATE statements.

\* SELECT borrowing_id, due_date FROM borrowings WHERE status = 'overdue' AND return_date IS NULL
FinesCursorRows ==
  {<<l, loans[l].due_date>> : l \in {k \in LoanIds : loans[k].status = "overdue"
                                                       /\ loans[k].return_date = NULL}}

\* CALL CalculateFinesCursor(fine_per_day): DECLARE ..., OPEN cur
CalculateFinesCursor_Open(fine_per_day) ==
  /\ cursor.proc = "none"
  /\ cursor' = [proc |-> "fines", arg |-> fine_per_day, rows |-> FinesCursorRows]
  /\ UNCHANGED <<books, members, loans, today, pc, req, result, lock, nextBookId, links, leaked>>

\* FETCH cur INTO borrow_id, due; SET days_late = DATEDIFF(CURDATE(), due);
\* UPDATE borrowings SET fine_amount = days_late * fine_per_day WHERE borrowing_id = borrow_id
CalculateFinesCursor_Fetch ==
  /\ cursor.proc = "fines"
  /\ \E row \in cursor.rows :
       LET borrow_id == row[1]
           due       == row[2]
           days_late == today - due
           old       == loans[borrow_id]
           new       == [old EXCEPT !.fine_amount = days_late * cursor.arg]
       IN /\ loans' = [loans EXCEPT ![borrow_id] = new]
          /\ books' = after_borrowing_update(books, old, new)
          /\ cursor' = [cursor EXCEPT !.rows = @ \ {row}]
  /\ UNCHANGED <<members, today, pc, req, result, lock, nextBookId, links, leaked>>

\* FETCH finds no row: done, LEAVE read_loop, CLOSE cur
CalculateFinesCursor_Close ==
  /\ cursor.proc = "fines"
  /\ cursor.rows = {}
  /\ cursor' = NoCursor
  /\ UNCHANGED <<books, members, loans, today, pc, req, result, lock, nextBookId, links, leaked>>

\* ------------------------------------------------- book_authors, book_categories
\* the author_ids and category_ids a request body can carry: none, the empty
\* list, known ids, an unknown id, the same id twice
AuthorLists ==
  {NoList} \cup {[given |-> TRUE, ids |-> q] :
                   q \in {<< >>, <<1>>, <<2>>, <<1, 3>>, <<1, 1>>}}
CategoryLists ==
  {NoList} \cup {[given |-> TRUE, ids |-> q] : q \in {<< >>, <<1>>, <<2>>}}

\* the rows INSERT INTO book_authors (book_id, author_id) VALUES ? is given
LinkRows(b, ids) == {<<b, ids[i]>> : i \in 1..Len(ids)}

\* the INSERT throws: a foreign key (book_id, author_id / category_id) names no
\* row, or the primary key (book_id, author_id) comes twice
InsertLinksFails(rows, bk, b, ids, known) ==
  \/ b \notin DOMAIN bk
  \/ \E i \in 1..Len(ids) : ids[i] \notin known
  \/ \E i, j \in 1..Len(ids) : i # j /\ ids[i] = ids[j]
  \/ LinkRows(b, ids) \cap rows # {}

\* DELETE FROM book_authors WHERE book_id = ?
DeleteLinks(rows, b) == {r \in rows : r[1] # b}

\* ------------------------------------------------- POST /api/books (create)
\* the transaction of the handler, from the committed books bk and links lk:
\* INSERT INTO books (..., total_copies, available_copies) VALUES (..., total, total),
\* then the link INSERTs for the lists that are given and not empty; a
\* statement that throws rolls everything back
CreateBookTx(bk, lk, id, total, author_ids, category_ids) ==
  LET bk1  == [j \in DOMAIN bk \cup {id} |->
                 IF j = id THEN [total_copies |-> total, available_copies |-> total]
                           ELSE bk[j]]
      insA == author_ids.given /\ Len(author_ids.ids) > 0
      insC == category_ids.given /\ Len(category_ids.ids) > 0
  IN IF \/ insA /\ InsertLinksFails(lk.authors, bk1, id, author_ids.ids, Authors)
        \/ insC /\ InsertLinksFails(lk.categories, bk1, id, category_ids.ids, Categories)
       THEN [ok |-> FALSE, books |-> bk, links |-> lk]
       ELSE [ok |-> TRUE, books |-> bk1,
             links |-> [authors |-> IF insA THEN lk.authors \cup LinkRows(id, author_ids.ids)
                                            ELSE lk.authors,
                        categories |-> IF insC
                                         THEN lk.categories \cup LinkRows(id, category_ids.ids)
                                         ELSE lk.categories]]

\* the request: the AUTO_INCREMENT value the INSERT took is not given back by
\* a rollback
BookCreate(total, author_ids, category_ids) ==
  /\ nextBookId <= MaxBooks
  /\ ConnectionFree
  /\ LET r == CreateBookTx(books, links, nextBookId, total, author_ids, category_ids) IN
       /\ books' = r.books
       /\ links' = r.links
  /\ nextBookId' = nextBookId + 1
  /\ UNCHANGED <<members, loans, today, pc, req, result, lock, cursor, leaked>>

\* ------------------------------------------------- PUT /api/books/:id
\* (mutant) the statements run on the pool: what was written before the
\* statement that throws stays written
UpdateBookTx_NoRollback(bk, lk, b, total, avail, author_ids, category_ids) ==
  LET bk1  == IF b \in DOMAIN bk
                THEN [bk EXCEPT ![b] = [total_copies |-> total, available_copies |-> avail]]
                ELSE bk
      insA == author_ids.given /\ Len(author_ids.ids) > 0
      insC == category_ids.given /\ Len(category_ids.ids) > 0
      a0   == IF author_ids.given THEN DeleteLinks(lk.authors, b) ELSE lk.authors
      c0   == IF category_ids.given THEN DeleteLinks(lk.categories, b) ELSE lk.categories
  IN IF insA /\ InsertLinksFails(a0, bk1, b, author_ids.ids, Authors)
       THEN [ok |-> FALSE, books |-> bk1, links |-> [authors |-> a0, categories |-> lk.categories]]
     ELSE IF insC /\ InsertLinksFails(c0, bk1, b, category_ids.ids, Categories)
       THEN [ok |-> FALSE, books |-> bk1,
             links |-> [authors |-> IF insA THEN a0 \cup LinkRows(b, author_ids.ids) ELSE a0,
                        categories |-> c0]]
     ELSE [ok |-> TRUE, books |-> bk1,
           links |-> [authors |-> IF insA THEN a0 \cup LinkRows(b, author_ids.ids) ELSE a0,
                      categories |-> IF insC THEN c0 \cup LinkRows(b, category_ids.ids)
                                             ELSE c0]]

\* (mutant) the book's links are deleted whether or not a list is given
UpdateBookTx_AlwaysDelete(bk, lk, b, total, avail, author_ids, category_ids) ==
  LET bk1  == IF b \in DOMAIN bk
                THEN [bk EXCEPT ![b] = [total_copies |-> total, available_copies |-> avail]]
                ELSE bk
      insA == author_ids.given /\ Len(author_ids.ids) > 0
      insC == category_ids.given /\ Len(category_ids.ids) > 0
      a0   == DeleteLinks(lk.authors, b)
      c0   == DeleteLinks(lk.categories, b)
  IN IF \/ insA /\ InsertLinksFails(a0, bk1, b, author_ids.ids, Authors)
        \/ insC /\ InsertLinksFails(c0, bk1, b, category_ids.ids, Categories)
       THEN [ok |-> FALSE, books |-> bk, links |-> lk]
       ELSE [ok |-> TRUE, books |-> bk1,
             links |-> [authors |-> IF insA THEN a0 \cup LinkRows(b, author_ids.ids) ELSE a0,
                        categories |-> IF insC THEN c0 \cup LinkRows(b, category_ids.ids)
                                               ELSE c0]]

\* (mutant) the links are patched: the given rows are added to those on file
UpdateBookTx_NoDelete(bk, lk, b, total, avail, author_ids, category_ids) ==
  LET bk1  == IF b \in DOMAIN bk
                THEN [bk EXCEPT ![b] = [total_copies |-> total, available_copies |-> avail]]
                ELSE bk
      insA == author_ids.given /\ Len(author_ids.ids) > 0
      insC == category_ids.given /\ Len(category_ids.ids) > 0
  IN IF \/ insA /\ InsertLinksFails({}, bk1, b, author_ids.ids, Authors)
        \/ insC /\ InsertLinksFails({}, bk1, b, category_ids.ids, Categories)
       THEN [ok |-> FALSE, books |-> bk, links |-> lk]
       ELSE [ok |-> TRUE, books |-> bk1,
             links |-> [authors |-> IF insA THEN lk.authors \cup LinkRows(b, author_ids.ids)
                                            ELSE lk.authors,
                        categories |-> IF insC
                                         THEN lk.categories \cup LinkRows(b, category_ids.ids)
                                         ELSE lk.categories]]

\* the transaction of the handler, from the committed books bk and links lk:
\* UPDATE books SET ..., total_copies = ?, available_copies = ? WHERE book_id = ?
\* with both values as the caller sent them; for each list that is given,
\* DELETE the book's links, then INSERT the list when it is not empty; a
\* statement that throws rolls everything back
UpdateBookTx(bk, lk, b, total, avail, author_ids, category_ids) ==
  LET bk1  == IF b \in DOMAIN bk
                THEN [bk EXCEPT ![b] = [total_copies |-> total, available_copies |-> avail]]
                ELSE bk
      insA == author_ids.given /\ Len(author_ids.ids) > 0
      insC == category_ids.given /\ Len(category_ids.ids) > 0
      a0   == IF author_ids.given THEN DeleteLinks(lk.authors, b) ELSE lk.authors
      c0   == IF category_ids.given THEN DeleteLinks(lk.categories, b) ELSE lk.categories
  IN IF \/ insA /\ InsertLinksFails(a0, bk1, b, author_ids.ids, Authors)
        \/ insC /\ InsertLinksFails(c0, bk1, b, category_ids.ids, Categories)
       THEN [ok |-> FALSE, books |-> bk, links |-> lk]
       ELSE [ok |-> TRUE, books |-> bk1,
             links |-> [authors |-> IF insA THEN a0 \cup LinkRows(b, author_ids.ids) ELSE a0,
                        categories |-> IF insC THEN c0 \cup LinkRows(b, category_ids.ids)
                                               ELSE c0]]

\* the request, for a book on file (the UPDATE waits for the row lock); a
\* request that is rolled back, or writes what is there, changes nothing
BookUpdate(b, total, avail, author_ids, category_ids) ==
  /\ b \in DOMAIN books
  /\ ConnectionFree
  /\ lock[b] = 0
  /\ LET r == UpdateBookTx(books, links, b, total, avail, author_ids, category_ids) IN
       /\ books' = r.books
       /\ links' = r.links
  /\ <<books', links'>> # <<books, links>>
  /\ UNCHANGED <<members, loans, today, pc, req, result, lock, nextBookId, cursor, leaked>>

\* ------------------------------------------------- DELETE /api/books/:id
\* SELECT GetActiveBorrowingsCount(?) on the pool, 400 when it is positive
DeleteCheck(p, b) ==
  /\ pc[p] = "idle"
  /\ IF GetActiveBorrowingsCount(b) > 0
       THEN /\ result' = [result EXCEPT ![p] = "BookHasActiveLoans"]
            /\ UNCHANGED <<pc, req>>
       ELSE /\ pc' = [pc EXCEPT ![p] = "d_delete"]
            /\ req' = [req EXCEPT ![p] = [NoReq EXCEPT !.book = b]]
            /\ result' = [result EXCEPT ![p] = "none"]
  /\ UNCHANGED <<books, members, loans, today, lock, nextBookId, cursor, links, leaked>>

\* (mutant) borrowings has no foreign key to books
ReferencedByBorrowings_NoForeignKey(b) == FALSE

\* FOREIGN KEY (book_id) REFERENCES books(book_id) ON DELETE RESTRICT
ReferencedByBorrowings(b) == \E l \in LoanIds : loans[l].book_id = b

\* (mutant) the statements run on the pool: when DELETE FROM books fails, the
\* link rows deleted before it stay deleted
DeleteBook_LinksStayDeleted(p) ==
  /\ pc[p] = "d_delete"
  /\ ConnectionFree
  /\ LET b == req[p].book IN
     /\ b \in DOMAIN books => lock[b] = 0
     /\ links' = [authors |-> DeleteLinks(links.authors, b),
                  categories |-> DeleteLinks(links.categories, b)]
     /\ IF b \in DOMAIN books /\ ReferencedByBorrowings(b)
          THEN /\ result' = [result EXCEPT ![p] = "Error"]
               /\ UNCHANGED books
          ELSE /\ result' = [result EXCEPT ![p] = "Deleted"]
               /\ books' = [j \in DOMAIN books \ {b} |-> books[j]]
  /\ pc' = [pc EXCEPT ![p] = "idle"]
  /\ req' = [req EXCEPT ![p] = NoReq]
  /\ UNCHANGED <<members, loans, today, lock, nextBookId, cursor, leaked>>

\* the transaction: the book's links are deleted, then DELETE FROM books fails
\* on the foreign key while any borrowings row names the book (rollback, 500),
\* else the row is removed
DeleteBook(p) ==
  /\ pc[p] = "d_delete"
  /\ ConnectionFree
  /\ LET b == req[p].book IN
     /\ b \in DOMAIN books => lock[b] = 0
     /\ IF b \in DOMAIN books /\ ReferencedByBorrowings(b)
          THEN /\ result' = [result EXCEPT ![p] = "Error"]
               /\ UNCHANGED <<books, links>>
          ELSE /\ result' = [result EXCEPT ![p] = "Deleted"]
               /\ books' = [j \in DOMAIN books \ {b} |-> books[j]]
               /\ links' = [authors |-> DeleteLinks(links.authors, b),
                            categories |-> DeleteLinks(links.categories, b)]
  /\ pc' = [pc EXCEPT ![p] = "idle"]
  /\ req' = [req EXCEPT ![p] = NoReq]
  /\ UNCHANGED <<members, loans, today, lock, nextBookId, cursor, leaked>>

\* ------------------------------------------------- PUT /api/members/:id/status
MemberStatusUpdate(m, s) ==
  /\ m \in DOMAIN members
  /\ members[m] # s
  /\ members' = [members EXCEPT ![m] = s]
  /\ UNCHANGED <<books, loans, today, pc, req, result, lock, nextBookId, cursor, links, leaked>>

\* ------------------------------------------------- the specification
\* MaxProcs request handlers run concurrently with each other and with the
\* single-statement administrative requests.
Next ==
  \/ \E p \in Procs, b \in BookIds, m \in MemberIds, dd \in {NULL, 0} :
       BorrowCheck(p, b, m, NULL, dd)
  \/ \E p \in Procs : BorrowInsert(p)
  \/ \E p \in Procs : BorrowInsertFail(p)
  \/ \E p \in Procs : BorrowCommit(p)
  \/ \E p \in Procs, l \in 1..MaxLoans : ReturnCheck(p, l, NULL, NULL)
  \/ \E p \in Procs : ReturnUpdate(p)
  \/ \E p \in Procs, l \in 1..MaxLoans, nd \in 1..MaxDay : ExtendCheck(p, l, nd)
  \/ \E p \in Procs : ExtendUpdate(p)
  \/ UpdateOverdue
  \/ CalculateFines(NULL)
  \/ \E t \in 0..MaxCopies : BookCreate(t, NoList, NoList)
  \/ \E b \in BookIds, t \in 0..MaxCopies, a \in 0..MaxCopies :
       BookUpdate(b, t, a, NoList, NoList)
  \/ \E p \in Procs, b \in BookIds : DeleteCheck(p, b)
  \/ \E p \in Procs : DeleteBook(p)
  \/ \E m \in Members, s \in MemberStatuses : MemberStatusUpdate(m, s)

Spec == Init /\ [][Next]_vars

\* SpecRace: the race of the no-overbooking property.  A book with one copy,
\* all of it available, and MaxProcs handlers that each send one borrow
\* request for it (member 1, who is active and has no loan).
InitRace ==
  /\ books = [b \in {1} |-> [total_copies |-> 1, available_copies |-> 1]]
  /\ members = [m \in Members |-> "active"]
  /\ loans = << >>
  /\ today \in Days
  /\ pc = [p \in Procs |-> "idle"]
  /\ req = [p \in Procs |-> NoReq]
  /\ result = [p \in Procs |-> "none"]
  /\ lock = [b \in BookIds |-> 0]
  /\ nextBookId = 2
  /\ cursor = NoCursor
  /\ links = NoLinks
  /\ leaked = 0

NextRace ==
  \/ \E p \in Procs, dd \in {NULL, 0} : result[p] = "none" /\ BorrowCheck(p, 1, 1, NULL, dd)
  \/ \E p \in Procs : BorrowInsert(p)
  \/ \E p \in Procs : BorrowInsertFail(p)
  \/ \E p \in Procs : BorrowCommit(p)

SpecRace == InitRace /\ [][NextRace]_vars

\* SpecLoan: the life of the loans of one book.  Book 1 has MaxCopies copies,
\* all available; the handlers borrow, return and extend its loans while the
\* administrative requests and the stored procedure sweep them and compute
\* their fines.  The day is any day of the clock; a loan is due on day 0 until
\* it is extended.
InitLoan ==
  /\ books = [b \in {1} |-> [total_copies |-> MaxCopies, available_copies |-> MaxCopies]]
  /\ members = [m \in Members |-> "active"]
  /\ loans = << >>
  /\ today \in Days
  /\ pc = [p \in Procs |-> "idle"]
  /\ req = [p \in Procs |-> NoReq]
  /\ result = [p \in Procs |-> "none"]
  /\ lock = [b \in BookIds |-> 0]
  /\ nextBookId = 2
  /\ cursor = NoCursor
  /\ links = NoLinks
  /\ leaked = 0

NextLoan ==
  \/ \E p \in Procs : BorrowCheck(p, 1, 1, NULL, 0)
  \/ \E p \in Procs : BorrowInsert(p)
  \/ \E p \in Procs : BorrowInsertFail(p)
  \/ \E p \in Procs : BorrowCommit(p)
  \/ \E p \in Procs, l \in 1..MaxLoans, f \in {NULL, 2} : ReturnCheck(p, l, NULL, f)
  \/ \E p \in Procs : ReturnUpdate(p)
  \/ \E p \in Procs, l \in 1..MaxLoans, nd \in 1..MaxDay : ExtendCheck(p, l, nd)
  \/ \E p \in Procs : ExtendUpdate(p)
  \/ UpdateOverdue
  \/ CalculateFines(NULL)
  \/ UpdateOverdueBorrowings_Open
  \/ UpdateOverdueBorrowings_Fetch
  \/ UpdateOverdueBorrowings_Close

SpecLoan == InitLoan /\ [][NextLoan]_vars

\* SpecRound: borrow / return round trips of handler 1, nothing else touching
\* the book.  Book 1 starts with any counters a book can have and no loan; a
\* borrow request is sent while no loan is out.
NoLoanOut == \A l \in LoanIds : loans[l].status = "returned"

InitRound ==
  /\ books \in [{1} -> [total_copies : 0..MaxCopies, available_copies : 0..MaxCopies]]
  /\ members = [m \in Members |-> "active"]
  /\ loans = << >>
  /\ today \in Days
  /\ pc = [p \in Procs |-> "idle"]
  /\ req = [p \in Procs |-> NoReq]
  /\ result = [p \in Procs |-> "none"]
  /\ lock = [b \in BookIds |-> 0]
  /\ nextBookId = 2
  /\ cursor = NoCursor
  /\ links = NoLinks
  /\ leaked = 0

NextRound ==
  \/ \E dd \in {NULL, 0} : NoLoanOut /\ BorrowCheck(1, 1, 1, NULL, dd)
  \/ BorrowInsert(1)
  \/ BorrowCommit(1)
  \/ \E l \in 1..MaxLoans : ReturnCheck(1, l, NULL, NULL)
  \/ ReturnUpdate(1)

SpecRound == InitRound /\ [][NextRound]_vars

\* SpecFines: the sweeps and the fine batches, set-based and cursor-driven,
\* next to the requests of handler 1 on the loans of book 1.  It starts like
\* SpecLoan; an extend asks for any day up to the day after the clock's last.
NextFines ==
  \/ BorrowCheck(1, 1, 1, NULL, 0)
  \/ BorrowInsert(1)
  \/ BorrowCommit(1)
  \/ \E l \in 1..MaxLoans, f \in {NULL, 2} : ReturnCheck(1, l, NULL, f)
  \/ ReturnUpdate(1)
  \/ \E l \in 1..MaxLoans, nd \in 1..(MaxDay + 1) : ExtendCheck(1, l, nd)
  \/ ExtendUpdate(1)
  \/ UpdateOverdue
  \/ \E fpd \in {NULL, 2} : CalculateFines(fpd)
  \/ UpdateOverdueBorrowings_Open
  \/ UpdateOverdueBorrowings_Fetch
  \/ UpdateOverdueBorrowings_Close
  \/ CalculateFinesCursor_Open(DefaultFine)
  \/ CalculateFinesCursor_Fetch
  \/ CalculateFinesCursor_Close

SpecFines == InitLoan /\ [][NextFines]_vars

\* extends: two request handlers borrow, extend (to any day up to the one
\* after MaxDay) and return the copies of one book
NextExtend ==
  \/ \E p \in Procs : BorrowCheck(p, 1, 1, NULL, 0)
  \/ \E p \in Procs : BorrowInsert(p)
  \/ \E p \in Procs : BorrowCommit(p)
  \/ \E p \in Procs, l \in LoanIds, nd \in 1..(MaxDay + 1) : ExtendCheck(p, l, nd)
  \/ \E p \in Procs : ExtendUpdate(p)
  \/ \E p \in Procs, l \in LoanIds : ReturnCheck(p, l, NULL, NULL)
  \/ \E p \in Procs : ReturnUpdate(p)

SpecExtend == InitLoan /\ [][NextExtend]_vars

\* the pool: two request handlers borrow and return the copies of one book,
\* and beginTransaction can fail
NextPool ==
  \/ \E p \in Procs : BorrowCheck(p, 1, 1, NULL, NULL)
  \/ \E p \in Procs : BorrowInsert(p)
  \/ \E p \in Procs : BorrowInsertFail(p)
  \/ \E p \in Procs : BorrowCommit(p)
  \/ \E p \in Procs, l \in LoanIds : ReturnCheck(p, l, NULL, NULL)
  \/ \E p \in Procs : ReturnUpdate(p)
  \/ \E p \in Procs : BeginTransactionFails(p)

SpecPool == InitLoan /\ [][NextPool]_vars

\* the catalogue: books are created with their links, edited, lent
\* and deleted, by two request handlers; one book with an author and a
\* category is on file from the start and no request names it
InitBooks ==
  /\ books = [b \in {SeedBook} |-> [total_copies |-> 1, available_copies |-> 1]]
  /\ members = [m \in Members |-> "active"]
  /\ loans = << >>
  /\ today \in Days
  /\ pc = [p \in Procs |-> "idle"]
  /\ req = [p \in Procs |-> NoReq]
  /\ result = [p \in Procs |-> "none"]
  /\ lock = [b \in BookIds |-> 0]
  /\ nextBookId = 1
  /\ cursor = NoCursor
  /\ links = [authors |-> {<<SeedBook, 1>>}, categories |-> {<<SeedBook, 1>>}]
  /\ leaked = 0

NextBooks ==
  \/ \E t \in 1..MaxCopies, a \in AuthorLists, c \in CategoryLists : BookCreate(t, a, c)
  \/ \E b \in BookIds, t \in 1..MaxCopies, v \in 0..MaxCopies,
        a \in AuthorLists, c \in CategoryLists : BookUpdate(b, t, v, a, c)
  \/ \E p \in Procs, b \in BookIds : DeleteCheck(p, b)
  \/ \E p \in Procs : DeleteBook(p)
  \/ \E p \in Procs, b \in BookIds, bd \in {NULL, 0} : BorrowCheck(p, b, 1, bd, NULL)
  \/ \E p \in Procs : BorrowInsert(p)
  \/ \E p \in Procs : BorrowInsertFail(p)
  \/ \E p \in Procs : BorrowCommit(p)

SpecBooks == InitBooks /\ [][NextBooks]_vars

\* the shelf: two request handlers create a book with its links, lend it,
\* take it back and delete it
NextShelf ==
  \/ \E t \in 1..MaxCopies, a \in AuthorLists, c \in CategoryLists : BookCreate(t, a, c)
  \/ \E p \in Procs, b \in BookIds : BorrowCheck(p, b, 1, NULL, NULL)
  \/ \E p \in Procs : BorrowInsert(p)
  \/ \E p \in Procs : BorrowInsertFail(p)
  \/ \E p \in Procs : BorrowCommit(p)
  \/ \E p \in Procs, l \in LoanIds : ReturnCheck(p, l, NULL, NULL)
  \/ \E p \in Procs : ReturnUpdate(p)
  \/ \E p \in Procs, b \in BookIds : DeleteCheck(p, b)
  \/ \E p \in Procs : DeleteBook(p)

SpecShelf == InitBooks /\ [][NextShelf]_vars

\* ================================================================ claims

\* C1: every book has available_copies = total_copies - (number of its loans
\* that are borrowed or overdue), in every reachable state.
C1_CopiesMatchLoans ==
  \A b \in DOMAIN books :
    books[b].available_copies = books[b].total_copies - GetActiveBorrowingsCount(b)

\* every handler has its answer
RaceDone == \A p \in Procs : pc[p] = "idle" /\ result[p] # "none"

\* C2: when the handlers' borrow requests for a book with one available copy
\* have all been answered, exactly one of them succeeded and every other one
\* was refused (NoAvailableCopies; a lock-wait failure is let pass here too).
C2_ExactlyOneBorrower ==
  RaceDone =>
    /\ Cardinality({p \in Procs : result[p] = "Created"}) = 1
    /\ \A p \in Procs : result[p] \in {"Created", "NoAvailableCopies", "Error"}

\* C3: available_copies of every book is >= 0 in every reachable state.
C3_AvailableNonNegative ==
  \A b \in DOMAIN books : books[b].available_copies >= 0

\* C4: the increment of a return never takes available_copies above
\* total_copies: after a step that returns a loan of book b,
\* available_copies <= total_copies holds for b.
C4_ReturnClampsAtTotal ==
  [][\A p \in Procs :
       (pc[p] = "r_update" /\ pc'[p] = "idle")
         => LET b == loans[req[p].loan].book_id IN
              books'[b].available_copies <= books'[b].total_copies]_vars

\* C5: the number of borrowed or overdue loans of a book is at most its total_copies.
C5_ActiveLoansWithinTotal ==
  \A b \in DOMAIN books : GetActiveBorrowingsCount(b) <= books[b].total_copies

\* the step adds p's borrowed row and takes one copy of its book, nothing else
AddsLoanAndDecrement(p) ==
  /\ Len(loans') = Len(loans) + 1
  /\ SubSeq(loans', 1, Len(loans)) = loans
  /\ loans'[Len(loans')].book_id = req[p].book
  /\ loans'[Len(loans')].status = "borrowed"
  /\ DOMAIN books' = DOMAIN books
  /\ \A b \in DOMAIN books :
       /\ books'[b].total_copies = books[b].total_copies
       /\ books'[b].available_copies =
            books[b].available_copies - (IF b = req[p].book THEN 1 ELSE 0)

\* C6: createLoan is one unit of work.  Every step of a borrow transaction
\* either leaves the committed books and loans as they are, or is its commit,
\* which adds exactly the new borrowed row and takes exactly one copy of that
\* row's book; a transaction that fails adds neither.
C6_BorrowIsOneUnit ==
  [][\A p \in Procs :
       (pc[p] \in {"b_insert", "b_commit"} /\ pc'[p] # pc[p])
         => \/ result'[p] = "Created" /\ AddsLoanAndDecrement(p)
            \/ result'[p] # "Created" /\ loans' = loans /\ books' = books]_vars

\* a borrow transaction has failed and rolled back, and another has committed its loan
C6_Witness ==
  \E p, q \in Procs : result[p] = "Error" /\ result[q] = "Created" /\ Len(loans) >= 1

\* C7: a return request applied to a loan that is already returned fails: no
\* return request is answered with success when the loan's status was returned
\* at the moment its update ran.
C7_ReturnedLoanIsRefused ==
  [][\A p \in Procs :
       (pc[p] = "r_update" /\ result'[p] = "Returned")
         => loans[req[p].loan].status # "returned"]_vars

\* the typed rejections of a borrow request
BorrowRejections ==
  {"BookNotFound", "NoAvailableCopies", "MemberNotFound", "MemberNotActive",
   "MemberHasOverdueLoans"}

\* C8: a createLoan that is rejected changes no state: the step that answers a
\* borrow request with a rejection leaves the loans and every book's counters
\* as they were.
C8_RejectedBorrowChangesNothing ==
  [][\A p \in Procs :
       (result'[p] # result[p] /\ result'[p] \in BorrowRejections)
         => loans' = loans /\ books' = books /\ members' = members]_vars

\* a request was rejected for the member's overdue loan, which is on file
C8_Witness ==
  \E p \in Procs : result[p] = "MemberHasOverdueLoans" /\ Len(loans) >= 1

\* C9: createLoan succeeds only if, when the loan is committed, the book exists
\* with available_copies > 0, the member exists and is active, and the member
\* has no overdue loan.
C9_EligibleAtCommit ==
  [][\A p \in Procs :
       (pc[p] = "b_commit" /\ result'[p] = "Created")
         => /\ req[p].book \in DOMAIN books
            /\ books[req[p].book].available_copies > 0
            /\ req[p].member \in DOMAIN members
            /\ members[req[p].member] = "active"
            /\ ~ \E l \in LoanIds : loans[l].member_id = req[p].member
                                    /\ loans[l].status = "overdue"]_vars

\* the five eligibility conditions, in the order the contract lists them
BorrowChecksInOrder(b, m) ==
  << [ok |-> b \in DOMAIN books, fail |-> "BookNotFound"],
     [ok |-> b \in DOMAIN books /\ books[b].available_copies > 0,
      fail |-> "NoAvailableCopies"],
     [ok |-> m \in DOMAIN members, fail |-> "MemberNotFound"],
     [ok |-> m \in DOMAIN members /\ members[m] = "active", fail |-> "MemberNotActive"],
     [ok |-> ~ \E l \in LoanIds : loans[l].member_id = m /\ loans[l].status = "overdue",
      fail |-> "MemberHasOverdueLoans"] >>

\* the failure of the first condition that does not hold, or Ok
FirstFailedCheck(b, m) ==
  LET cs     == BorrowChecksInOrder(b, m)
      failed == {i \in 1..Len(cs) : ~ cs[i].ok}
  IN IF failed = {} THEN "Ok"
     ELSE cs[CHOOSE i \in failed : \A j \in failed : i <= j].fail

\* C10: the eligibility checks are evaluated in the order book exists,
\* available_copies > 0, member exists, member active, no overdue loan, and a
\* borrow request is answered with the failure of the first check that fails
\* (and goes on to the insert when none fails).
C10_FirstFailedCheckIsReported ==
  [][\A p \in Procs, b \in BookIds, m \in MemberIds, dd \in {NULL, 0} :
       BorrowCheck(p, b, m, NULL, dd)
         => IF FirstFailedCheck(b, m) = "Ok"
              THEN pc'[p] = "b_insert"
              ELSE pc'[p] = "idle" /\ result'[p] = FirstFailedCheck(b, m)]_vars

\* a request for a book without copies was answered NoAvailableCopies while no
\* member is active (the later member check would have failed too)
C10_Witness ==
  \E p \in Procs :
    /\ result[p] = "NoAvailableCopies"
    /\ \A m \in DOMAIN members : members[m] # "active"

\* C11: borrow / return round trip.  For a book that starts with
\* available_copies = k > 0 and total_copies = t: after the successful borrow
\* the new loan is borrowed and available_copies is k - 1, after the
\* successful return of that loan it is returned and available_copies is k
\* again, and total_copies is t throughout.
C11_RoundTrip ==
  \A k \in 1..MaxCopies, t \in 0..MaxCopies :
    (books[1].available_copies = k /\ books[1].total_copies = t)
      => [](/\ books[1].total_copies = t
            /\ (pc[1] = "idle" /\ result[1] = "Created")
                 => /\ loans[Len(loans)].status = "borrowed"
                    /\ books[1].available_copies = k - 1
            /\ (pc[1] = "idle" /\ result[1] = "Returned")
                 => /\ loans[Len(loans)].status = "returned"
                    /\ books[1].available_copies = k)

\* a second round trip has come back: every loan the table can hold is returned
C11_Witness ==
  /\ pc[1] = "idle"
  /\ result[1] = "Returned"
  /\ Len(loans) = MaxLoans
  /\ NoLoanOut
  /\ books[1].available_copies >= 1

\* C12: a successful return of a loan that is borrowed or overdue sets
\* fine_amount to the supplied amount when one is given, and leaves fine_amount
\* as it was stored (for instance by the fine batch) when none is given.
C12_ReturnKeepsComputedFine ==
  [][\A p \in Procs :
       (/\ pc[p] = "r_update"
        /\ result'[p] = "Returned"
        /\ loans[req[p].loan].status \in {"borrowed", "overdue"})
         => LET l == req[p].loan IN
              loans'[l].fine_amount =
                IF req[p].fine = NULL THEN loans[l].fine_amount ELSE req[p].fine]_vars

\* C13: returned and lost are terminal.  No step changes the status of a loan
\* that is returned or lost, and the return of a lost loan does not restock
\* the book.
C13_TerminalStatuses ==
  [][/\ \A l \in LoanIds :
          loans[l].status \in {"returned", "lost"} => loans'[l].status = loans[l].status
     /\ \A p \in Procs :
          (pc[p] = "r_update" /\ pc'[p] = "idle" /\ loans[req[p].loan].status = "lost")
            => books' = books]_vars

\* C14: return_date is non-null only on a returned loan, and it is written
\* once: a loan whose return_date is set keeps that date, and no return
\* statement runs on it again.
C14_ReturnDateSetOnce ==
  [][/\ \A l \in 1..Len(loans') :
          loans'[l].return_date # NULL => loans'[l].status = "returned"
     /\ \A l \in LoanIds :
          loans[l].return_date # NULL => loans'[l].return_date = loans[l].return_date
     /\ \A p \in Procs :
          (pc[p] = "r_update" /\ pc'[p] = "idle")
            => loans[req[p].loan].return_date = NULL]_vars

\* C15: an extend request for an absent loan fails with LoanNotFound, for a
\* returned loan with CannotExtendReturned, and for a new due date <= the
\* loan's due_date (an equal date too) with InvalidDueDate; a request that
\* fails leaves every loan as it is (a request that meets none of the three
\* conditions goes on to its update).
C15_ExtendFailures ==
  [][\A p \in Procs, l \in 1..MaxLoans, nd \in 1..MaxDay :
       ExtendCheck(p, l, nd)
         => LET failure ==
                  IF l > Len(loans) THEN "LoanNotFound"
                  ELSE IF loans[l].status = "returned" THEN "CannotExtendReturned"
                  ELSE IF ~ (nd > loans[l].due_date) THEN "InvalidDueDate"
                  ELSE "none"
            IN IF failure = "none"
                 THEN pc'[p] = "e_update"
                 ELSE /\ result'[p] = failure
                      /\ pc'[p] = "idle"
                      /\ loans' = loans]_vars

\* a request was refused for a new due date equal to the loan's due date (the
\* only dates a request carries are 1..MaxDay), another for a returned loan
C15_Witness ==
  \E p, q \in Procs :
    /\ result[p] = "InvalidDueDate"
    /\ result[q] = "CannotExtendReturned"
    /\ \E l \in LoanIds : loans[l].due_date = MaxDay /\ loans[l].status # "returned"

\* C16: a successful extend sets due_date to the new due date; a loan that
\* was overdue becomes borrowed, a loan that was borrowed stays borrowed.
C16_ExtendSetsDueDate ==
  [][\A p \in Procs :
       (pc[p] = "e_update" /\ result'[p] = "Extended")
         => LET old == loans[req[p].loan]
                new == loans'[req[p].loan]
            IN /\ new.due_date = req[p].ddate
               /\ old.status \in {"overdue", "borrowed"} => new.status = "borrowed"]_vars

\* a loan that carries a computed fine, so has been overdue, is borrowed
\* again after an extend
C16_Witness ==
  \E p \in Procs, l \in LoanIds :
    /\ result[p] = "Extended"
    /\ loans[l].status = "borrowed"
    /\ loans[l].fine_amount > 0
    /\ loans[l].due_date >= 1

\* C17: an extend leaves the loan's fine_amount, return_date and borrow_date
\* and every book's available_copies and total_copies as they were, also when
\* it takes the loan from overdue back to borrowed.
C17_ExtendFrame ==
  [][\A p \in Procs :
       (pc[p] = "e_update" /\ result'[p] = "Extended")
         => LET old == loans[req[p].loan]
                new == loans'[req[p].loan]
            IN /\ new.fine_amount = old.fine_amount
               /\ new.return_date = old.return_date
               /\ new.borrow_date = old.borrow_date
               /\ books' = books]_vars

\* an extend has taken an overdue loan (it carries a computed fine) back to
\* borrowed, and the book still misses the copy of every loan that is out
C17_Witness ==
  \E p \in Procs, l \in LoanIds :
    /\ result[p] = "Extended"
    /\ loans[l].status = "borrowed"
    /\ loans[l].fine_amount = DefaultFine
    /\ loans[l].return_date = NULL
    /\ books[1].available_copies = MaxCopies - GetActiveBorrowingsCount(1)

\* the loans a sweep on day now is to mark: borrowed and due strictly before now
LateLoans(now) ==
  {l \in LoanIds : loans[l].status = "borrowed" /\ ~ (loans[l].due_date >= now)}

\* a step of a sweep that writes loans: the set-based UPDATE of the request
\* handler, or one UPDATE of the procedure's cursor loop
SweepStep == UpdateOverdue \/ UpdateOverdueBorrowings_Fetch

C19_SweepFrame ==
  [][SweepStep
       => /\ books' = books
          /\ Len(loans') = Len(loans)
          /\ \A l \in LoanIds :
               loans'[l] = [loans[l] EXCEPT !.status = loans'[l].status]]_vars

\* every loan is overdue and the book still misses all their copies
C19_Witness ==
  /\ Len(loans) = MaxLoans
  /\ \A l \in LoanIds : loans[l].status = "overdue" /\ loans[l].return_date = NULL
  /\ books[1].available_copies = MaxCopies - MaxLoans
  /\ books[1].total_copies = MaxCopies

\* C20: a sweep is safe next to borrow and return traffic: in every
\* interleaving a step of it changes the status of a loan only from borrowed
\* to overdue, so a loan that a return has set to returned is never made
\* overdue (for the set-based UPDATE and for the cursor-driven procedure).
C20_SweepOnlyNarrows ==
  [][SweepStep
       => \A l \in LoanIds :
            loans'[l].status # loans[l].status
              => loans[l].status = "borrowed" /\ loans'[l].status = "overdue"]_vars

\* the loans after the set-based sweep of day now has run on rows
SweepOf(rows, now) == [l \in 1..Len(rows) |-> SweepRow(rows[l], now)]

\* C21: a sweep is idempotent.  From every reachable state, a second sweep on
\* the same day right after a first one changes no loan and reports an
\* updated count of 0.
C21_SweepIdempotent ==
  LET once == SweepOf(loans, today) IN
    /\ SweepOf(once, today) = once
    /\ UpdatedCount(once, today) = 0

\* a state in which the first sweep has work to do (a late borrowed loan) next
\* to a loan an earlier sweep has marked
C21_Witness ==
  \E l, k \in LoanIds :
    /\ l \in LateLoans(today)
    /\ loans[k].status = "overdue"
    /\ UpdatedCount(loans, today) = 1

Max0(x) == IF x > 0 THEN x ELSE 0

\* C22: after a fine batch with finePerDay has run on day D, every loan that
\* is overdue with return_date null has fine_amount = max(0, D - due_date) *
\* finePerDay, and that amount is not negative.
C22_BatchFineFormula ==
  [][\A fpd \in {NULL, 2} :
       CalculateFines(fpd)
         => \A l \in LoanIds :
              (loans'[l].status = "overdue" /\ loans'[l].return_date = NULL)
                => /\ loans'[l].fine_amount =
                        Max0(today - loans'[l].due_date)
                          * (IF fpd = NULL THEN DefaultFine ELSE fpd)
                   /\ loans'[l].fine_amount >= 0]_vars

\* the loans after the set-based fine batch with dailyFine has run on rows
FinesOf(rows, now, dailyFine) ==
  [l \in 1..Len(rows) |-> FineRow(rows[l], now, dailyFine)]

\* C23: the fine batch is idempotent.  From every reachable state, a second
\* batch with the same finePerDay on the same day right after a first one
\* leaves every loan's fine_amount as the first one set it.
C23_FineBatchIdempotent ==
  \A fpd \in {DefaultFine, 2} :
    LET once == FinesOf(loans, today, fpd) IN
      \A l \in LoanIds :
        FinesOf(once, today, fpd)[l].fine_amount = once[l].fine_amount

\* an overdue loan that is not returned carries a fine a batch has computed
C23_Witness ==
  \E l \in LoanIds :
    /\ loans[l].status = "overdue"
    /\ loans[l].return_date = NULL
    /\ loans[l].fine_amount > 0
    /\ loans[l].due_date < today

\* a step of a fine batch that writes loans: the set-based UPDATE of the
\* request handler, or one UPDATE of the procedure's cursor loop
FineStep == (\E fpd \in {NULL, 2} : CalculateFines(fpd)) \/ CalculateFinesCursor_Fetch

\* C24: a fine batch changes fine_amount only of loans that are overdue with
\* return_date null, and changes no status, no due_date and no book counter,
\* also when a return of the same loan interleaves with the batch.
C24_FineBatchFrame ==
  [][FineStep
       => /\ books' = books
          /\ \A l \in LoanIds :
               /\ loans'[l].status = loans[l].status
               /\ loans'[l].due_date = loans[l].due_date
               /\ loans'[l].fine_amount # loans[l].fine_amount
                    => loans[l].status = "overdue" /\ loans[l].return_date = NULL]_vars

\* C25: fine_amount of every loan is >= 0 in every reachable state.
C25_FineNonNegative ==
  \A l \in LoanIds : loans[l].fine_amount >= 0

\* the author (category) ids book b is linked to
AuthorsOf(rows, b) == {r[2] : r \in {x \in rows : x[1] = b}}

\* the ids a request list names
IdsOf(list) == {list.ids[i] : i \in 1..Len(list.ids)}

\* C26: a book update that goes through and supplies author_ids
\* (category_ids) leaves the book with exactly the given authors
\* (categories), so with none when the list is empty; the links of every
\* other book are as before. (From every reachable state, for every request.)
C26_LinksReplaced ==
  \A b \in DOMAIN books \cap BookIds, t \in 1..MaxCopies, v \in 0..MaxCopies,
     a \in AuthorLists, c \in CategoryLists :
    LET r == UpdateBookTx(books, links, b, t, v, a, c) IN
      r.ok => /\ a.given => AuthorsOf(r.links.authors, b) = IdsOf(a)
              /\ c.given => AuthorsOf(r.links.categories, b) = IdsOf(c)
              /\ \A o \in DOMAIN books \ {b} :
                   /\ AuthorsOf(r.links.authors, o) = AuthorsOf(links.authors, o)
                   /\ AuthorsOf(r.links.categories, o) = AuthorsOf(links.categories, o)

\* book 1, created with author 1 and category 1, has been updated with
\* author_ids [2] and category_ids []: only an update leaves the counters
\* apart with no loan on file, and only a replaced list leaves author 2 alone
C26_Witness ==
  /\ 1 \in DOMAIN books
  /\ loans = << >>
  /\ books[1].available_copies # books[1].total_copies
  /\ AuthorsOf(links.authors, 1) = {2}
  /\ AuthorsOf(links.categories, 1) = {}
  /\ AuthorsOf(links.authors, SeedBook) = {1}

\* a list names an author or a category that is not on file
UnknownId(a, c) ==
  \/ a.given /\ IdsOf(a) \ Authors # {}
  \/ c.given /\ IdsOf(c) \ Categories # {}

\* C27: a book create or update whose lists name an unknown author or
\* category is rolled back whole: the books (their counters), the author
\* links and the category links are as before the request, and a create
\* leaves no book row. (From every reachable state, for every such request.)
C27_FailedInsertRollsBack ==
  \A t \in 1..MaxCopies, a \in AuthorLists, c \in CategoryLists :
    UnknownId(a, c) =>
      /\ \A b \in DOMAIN books \cap BookIds, v \in 0..MaxCopies :
           LET r == UpdateBookTx(books, links, b, t, v, a, c) IN
             ~r.ok /\ r.books = books /\ r.links = links
      /\ LET r == CreateBookTx(books, links, nextBookId, t, a, c) IN
           ~r.ok /\ r.books = books /\ r.links = links /\ nextBookId \notin DOMAIN r.books

\* a create has been rolled back: its book id is used up, no request has
\* deleted anything, and no book but the seeded one is on file
C27_Witness ==
  /\ DOMAIN books = {SeedBook}
  /\ nextBookId = 2
  /\ links = [authors |-> {<<SeedBook, 1>>}, categories |-> {<<SeedBook, 1>>}]
  /\ \A p \in Procs : pc[p] = "idle" /\ result[p] = "none"

\* the book of every borrowed or overdue loan is on file
ActiveLoanHasBook ==
  \A l \in LoanIds :
    loans[l].status \in {"borrowed", "overdue"} => loans[l].book_id \in DOMAIN books

\* C28: a delete of a book that has a borrowed or overdue loan is answered
\* BookHasActiveLoans and changes no book, link or loan; a delete that passed
\* its check before a borrow of the book committed changes none either; and in
\* every committed state the book of every active loan is on file.
C28_DeleteKeepsLentBook ==
  [][/\ \A p \in Procs, b \in BookIds :
          DeleteCheck(p, b) /\ GetActiveBorrowingsCount(b) > 0
            => /\ result'[p] = "BookHasActiveLoans"
               /\ pc'[p] = "idle"
               /\ books' = books /\ links' = links /\ loans' = loans
     /\ \A p \in Procs :
          DeleteBook(p) /\ GetActiveBorrowingsCount(req[p].book) > 0
            => books' = books /\ links' = links /\ loans' = loans
     /\ ActiveLoanHasBook
     /\ ActiveLoanHasBook']_vars

\* one handler's delete of a lent book has been refused while the other's,
\* which passed its check before the borrow committed, is about to run its
\* transaction on the same book
C28_Witness ==
  \E p, q \in Procs :
    /\ result[p] = "BookHasActiveLoans"
    /\ pc[q] = "d_delete"
    /\ req[q].book \in DOMAIN books
    /\ GetActiveBorrowingsCount(req[q].book) > 0

\* C29: a step that changes a book's total_copies from T to T' (a book
\* update; no other request writes total_copies) leaves available_copies at
\* max(0, available_copies + (T' - T)), whatever available_copies the caller
\* sent.
C29_TotalEditReconciles ==
  [][\A b \in BookIds :
       (b \in DOMAIN books /\ b \in DOMAIN books'
          /\ books'[b].total_copies # books[b].total_copies)
         => books'[b].available_copies =
              Max0(books[b].available_copies
                     + (books'[b].total_copies - books[b].total_copies))]_vars

\* C30: a borrow request without due_date that passes its checks takes
\* borrow_date = the supplied date, or today when none is supplied, and
\* due_date = borrow_date + 14; the loan its commit creates is the last row,
\* with these dates, status borrowed and return_date null.
C30_NewLoanDefaults ==
  [][/\ \A p \in Procs, b \in BookIds, m \in Members, bd \in {NULL} \cup Days :
          BorrowCheck(p, b, m, bd, NULL) /\ pc'[p] = "b_insert"
            => /\ req'[p].bdate = IF bd = NULL THEN today ELSE bd
               /\ req'[p].ddate = req'[p].bdate + LoanPeriod
     /\ \A p \in Procs :
          BorrowCommit(p)
            => /\ Len(loans') = Len(loans) + 1
               /\ loans'[Len(loans')].status = "borrowed"
               /\ loans'[Len(loans')].return_date = NULL
               /\ loans'[Len(loans')].borrow_date = req[p].bdate
               /\ loans'[Len(loans')].due_date = req[p].ddate]_vars

\* C31: every loan has due_date > borrow_date, in every reachable state.
C31_DueAfterBorrow ==
  \A l \in LoanIds : loans[l].due_date > loans[l].borrow_date

\* C32: no step changes the due_date of a loan that is returned when the
\* step is taken, so a returned loan keeps the due_date it was returned with,
\* under every interleaving of extend and return requests.
C32_ReturnedKeepsDueDate ==
  [][\A l \in LoanIds :
       loans[l].status = "returned" => loans'[l].due_date = loans[l].due_date]_vars

\* C33: no step lowers a loan's due_date, and every extend that goes through
\* raises it, also when two extends of the same loan run concurrently.
C33_DueDateNeverDecreases ==
  [][/\ \A l \in LoanIds : loans'[l].due_date >= loans[l].due_date
     /\ \A p \in Procs :
          ExtendUpdate(p) => loans'[req[p].loan].due_date > loans[req[p].loan].due_date]_vars

\* the status changes a loan may make
StatusEdges ==
  {<<"borrowed", "overdue">>, <<"overdue", "borrowed">>,
   <<"borrowed", "returned">>, <<"overdue", "returned">>}

\* C34: a step that changes a loan's status takes it borrowed -> overdue,
\* overdue -> borrowed, borrowed -> returned or overdue -> returned, and the
\* first is made by a sweep only, the second by an extend only, the last two
\* by a return only; no step takes a loan out of returned or lost, or into lost.
C34_StatusEdges ==
  [][\A l \in LoanIds :
       loans'[l].status # loans[l].status
         => /\ <<loans[l].status, loans'[l].status>> \in StatusEdges
            /\ loans'[l].status = "overdue" => SweepStep
            /\ loans'[l].status = "borrowed" => \E p \in Procs : ExtendUpdate(p)
            /\ loans'[l].status = "returned" => \E p \in Procs : ReturnUpdate(p)]_vars

\* C35: every overdue loan is due strictly before the current date, in every
\* reachable state (the current date of a run does not move).
C35_OverdueIsPastDue ==
  \A l \in LoanIds : loans[l].status = "overdue" => loans[l].due_date < today

\* C36: the transaction of a delete of a book on file with no borrowed or
\* overdue loan goes through, also when the book has returned loans: the
\* book row is gone and no author or category link names the book.
C36_DeleteUnlentBook ==
  [][\A p \in Procs :
       (DeleteBook(p) /\ req[p].book \in DOMAIN books
          /\ GetActiveBorrowingsCount(req[p].book) = 0)
         => /\ result'[p] = "Deleted"
            /\ req[p].book \notin DOMAIN books'
            /\ AuthorsOf(links'.authors, req[p].book) = {}
            /\ AuthorsOf(links'.categories, req[p].book) = {}]_vars

\* the book of every loan, returned ones too, is on file
LoanHasBook == \A l \in LoanIds : loans[l].book_id \in DOMAIN books

\* C37: in every state the book of every loan is on file, whatever way
\* borrows, returns and deletes interleave; and a delete whose DELETE FROM
\* books fails leaves the books and the author and category links as they
\* were before the request.
C37_LoanHasBook ==
  [][/\ LoanHasBook
     /\ LoanHasBook'
     /\ \A p \in Procs :
          (DeleteBook(p) /\ req[p].book \in DOMAIN books /\ ReferencedByBorrowings(req[p].book))
            => /\ result'[p] = "Error"
               /\ books' = books
               /\ links' = links]_vars

\* a delete has passed its check and is about to run its transaction on a
\* book that has an author link and that a returned loan still names
C37_Witness ==
  \E p \in Procs :
    /\ pc[p] = "d_delete"
    /\ req[p].book \in DOMAIN books
    /\ lock[req[p].book] = 0
    /\ AuthorsOf(links.authors, req[p].book) # {}
    /\ \E l \in LoanIds : loans[l].book_id = req[p].book /\ loans[l].status = "returned"

\* C38: a book update that goes through without author_ids leaves the book's
\* author links as they were, and one without category_ids its category
\* links; the links change only when the list is supplied.
\* (From every reachable state, for every request.)
C38_NoListKeepsLinks ==
  \A b \in DOMAIN books \cap BookIds, t \in 1..MaxCopies, v \in 0..MaxCopies,
     a \in AuthorLists, c \in CategoryLists :
    LET r == UpdateBookTx(books, links, b, t, v, a, c) IN
      r.ok => /\ ~a.given => AuthorsOf(r.links.authors, b) = AuthorsOf(links.authors, b)
              /\ ~c.given => AuthorsOf(r.links.categories, b) = AuthorsOf(links.categories, b)
              /\ r.links.authors # links.authors => a.given
              /\ r.links.categories # links.categories => c.given

\* book 1 has been updated (only an update leaves the counters apart with no
\* loan on file) and has both its author and its category
C38_Witness ==
  /\ 1 \in DOMAIN books
  /\ loans = << >>
  /\ books[1].available_copies # books[1].total_copies
  /\ AuthorsOf(links.authors, 1) = {1}
  /\ AuthorsOf(links.categories, 1) = {1}

\* C39: no connection is out of the pool but those of the handlers that are
\* inside their transaction: every connection a handler took is back when
\* the handler has answered, so some connection is free for a new request.
C39_ConnectionsReleased ==
  /\ leaked = 0
  /\ (\A p \in Procs : pc[p] = "idle") => ConnectionFree
====
